---- MODULE Spec2Model ----
(***************************************************************************)
(* A model of tellurium/oven/sedml/tesedml2.py: the SEDMLCodeFactory.      *)
(*                                                                         *)
(* Strings are sequences of one-character strings, so that startswith,     *)
(* replace, slicing and the `in` test are computed as Python computes      *)
(* them.  Python values that can meet in one dict (str, None) are tagged   *)
(* records.                                                                *)
(***************************************************************************)
EXTENDS Integers, Sequences, FiniteSets, TLC

VARIABLES
    pc,             \* position of the running operation
    doc,            \* self.sedmlDoc: the parsed SED-ML document
    model_sources,  \* _loadModel: dict model id -> value
    idx,            \* _loadModel: index of the second loop over the models
    arg,            \* findSource: argument of the innermost frame
    depth,          \* findSource: number of frames on the stack
    cur,            \* load block: index of currentModel
    path,           \* load block: the directory prefix `path`
    isid,           \* load block: what isId(string) answered
    string,         \* load block: the local `string`
    branch,         \* load block: the if/elif/else branch taken
    printed,        \* load block: the file name put into rrName.load('...')
    inputStr,       \* __init__: what the input string is, as the file system sees it
    workingDir,     \* self.workingDir
    inputType,      \* self.inputType
    models,         \* self.models
    names,          \* __extractArchive: zip.namelist()
    pos,            \* __extractArchive: index into the name list
    directory,      \* __extractArchive: the local `directory`
    dirs,           \* the directories that exist
    files,          \* the files written, in order
    script          \* toPython: the rendered statements

resolveVars == <<model_sources, idx, arg, depth>>
loadVars == <<cur, path, isid, string, branch, printed>>
readVars == <<inputStr, workingDir, inputType, models>>
extractVars == <<names, pos, directory, dirs, files>>
emitVars == <<script>>
vars == <<pc, doc, resolveVars, loadVars, readVars, extractVars, emitVars>>

(***************************************************************************)
(* Bounds of the model.                                                    *)
(***************************************************************************)
MaxModels == 3          \* models in a document of the resolution pass
RecursionLimit == 6     \* stands for the interpreter's recursion limit (1000)

(***************************************************************************)
(* Python values.                                                          *)
(***************************************************************************)
None == [type |-> "NoneType"]
Str(s) == [type |-> "str", val |-> s]
IsStr(v) == v.type = "str"

(* bool(s) of a str: the empty string is falsy. *)
Truthy(s) == Len(s) > 0

(* s.startswith(p) *)
StartsWith(s, p) == Len(p) <= Len(s) /\ SubSeq(s, 1, Len(p)) = p

(* p in s *)
Contains(s, p) == \E k \in 0..(Len(s) - Len(p)) : SubSeq(s, k + 1, k + Len(p)) = p

(* s[n:] *)
DropFirst(s, n) == SubSeq(s, n + 1, Len(s))

(* s.replace("\\", "/") *)
ReplaceBackslash(s) == [k \in 1..Len(s) |-> IF s[k] = "\\" THEN "/" ELSE s[k]]

(***************************************************************************)
(* The document: ordered lists, each entry keyed by its id.                *)
(***************************************************************************)
AllIds == << <<"m">>, <<"n">>, <<"p">>, <<"q">>, <<"r">> >>
RawSources == { <<"a">>, <<"b">> }
ChangeNames == <<"c1", "c2", "c3", "c4", "c5">>

Min(a, b) == IF a < b THEN a ELSE b

IdSet(n) == {AllIds[k] : k \in 1..Min(n, Len(AllIds))}

Model(id, source, changes) == [id |-> id, source |-> source, changes |-> changes]

(* A document that holds models only. *)
ModelsOnly(ms) ==
    [listOfModels |-> ms, listOfTasks |-> <<>>,
     listOfDataGenerators |-> <<>>, listOfOutputs |-> <<>>]

NoDoc == ModelsOnly(<<>>)

getId(m) == m.id
getSource(m) == m.source
getListOfModels(d) == d.listOfModels

(* Documents of n models m, n, p, ...: every source is a raw source or the
   id of some model; the k-th model declares the one change ck. *)
ResolveDocs(n) ==
    { ModelsOnly([k \in 1..n |-> Model(AllIds[k], src[k], <<ChangeNames[k]>>)]) :
        src \in [1..n -> IdSet(n) \cup RawSources] }

(***************************************************************************)
(* What the document declares, for stating the properties of resolution.   *)
(***************************************************************************)
ModelIdsOf(d) == {getId(getListOfModels(d)[k]) : k \in 1..Len(getListOfModels(d))}

ModelById(d, id) ==
    getListOfModels(d)[CHOOSE k \in 1..Len(getListOfModels(d)) : getId(getListOfModels(d)[k]) = id]

DeclaredSource(d, id) == getSource(ModelById(d, id))

(* The model ids met when following the source chain from string s for at
   most n hops; Cycle when the chain is still at a model id after n hops. *)
Cycle == <<"<", "c", "y", "c", "l", "e", ">">>

RECURSIVE Origin(_, _, _)
Origin(d, s, n) ==
    IF s \notin ModelIdsOf(d) THEN s
    ELSE IF n = 0 THEN Cycle
    ELSE Origin(d, DeclaredSource(d, s), n - 1)

OriginOf(d, id) == Origin(d, id, Len(getListOfModels(d)))

Acyclic(d) == \A id \in ModelIdsOf(d) : OriginOf(d, id) # Cycle

(* The change lists along the chain of model id, root first, leaf last. *)
RECURSIVE ChainChanges(_, _, _)
ChainChanges(d, id, n) ==
    IF n = 0 \/ DeclaredSource(d, id) \notin ModelIdsOf(d)
    THEN ModelById(d, id).changes
    ELSE ChainChanges(d, DeclaredSource(d, id), n - 1) \o ModelById(d, id).changes

ResolvedModel(source, changes) ==
    [type |-> "ResolvedModel", source |-> source, changes |-> changes]

IsModelIdValue(d, v) == IsStr(v) /\ v.val \in ModelIdsOf(d)

(* Some model of the document is derived from another model. *)
HasChain(d) == \E id \in ModelIdsOf(d) : DeclaredSource(d, id) \in ModelIdsOf(d) \ {id}

(***************************************************************************)
(* _loadModel: the model-source table and findSource.                      *)
(***************************************************************************)
ResolveIdle ==
    /\ model_sources = <<>>
    /\ idx = 0
    /\ arg = None
    /\ depth = 0

LoadIdle ==
    /\ cur = 0
    /\ path = <<>>
    /\ isid = FALSE
    /\ string = <<>>
    /\ branch = "none"
    /\ printed = <<>>

ReadIdle ==
    /\ inputStr = [kind |-> "none"]
    /\ workingDir = None
    /\ inputType = None
    /\ models = None

ExtractIdle ==
    /\ names = <<>>
    /\ pos = 0
    /\ directory = <<>>
    /\ dirs = {}
    /\ files = <<>>

EmitIdle == script = <<>>

(* model_sources.has_key(mid): None and a str that is no key are not keys. *)
has_key(d, mid) == IsStr(mid) /\ mid.val \in DOMAIN d

(* d[k] = v *)
DictSet(d, k, v) == [x \in DOMAIN d \cup {k} |-> IF x = k THEN v ELSE d[x]]

(* The first loop: model_sources[m.getId()] = m.getSource() for every model. *)
RECURSIVE FillSources(_, _, _)
FillSources(d, ms, k) ==
    IF k > Len(ms) THEN d
    ELSE FillSources(DictSet(d, getId(ms[k]), Str(getSource(ms[k]))), ms, k + 1)

(* A recursive call that passes its own argument on: findSource(mid). *)
SameArgument(d, mid) == mid

(* findSource's recursive call is findSource(model_sources[mid]). *)
RecursiveArgument(d, mid) == d[mid.val]

(* findSource has no return statement for an argument that is no key. *)
BaseResult(mid) == None

BuildTable ==
    /\ pc = "loadModel"
    /\ model_sources' = FillSources(<<>>, getListOfModels(doc), 1)
    /\ idx' = 1
    /\ pc' = "loop"
    /\ UNCHANGED <<doc, arg, depth, loadVars, readVars, extractVars, emitVars>>

(* for m in listOfModels: mid = m.getId(); findSource(mid) is called. *)
CallFindSource ==
    /\ pc = "loop"
    /\ idx <= Len(getListOfModels(doc))
    /\ arg' = Str(getId(getListOfModels(doc)[idx]))
    /\ depth' = 1
    /\ pc' = "findSource"
    /\ UNCHANGED <<doc, model_sources, idx, loadVars, readVars, extractVars, emitVars>>

(* if model_sources.has_key(mid): return findSource(model_sources[mid]) *)
Recurse ==
    /\ pc = "findSource"
    /\ has_key(model_sources, arg)
    /\ depth < RecursionLimit
    /\ arg' = RecursiveArgument(model_sources, arg)
    /\ depth' = depth + 1
    /\ UNCHANGED <<pc, doc, model_sources, idx, loadVars, readVars, extractVars, emitVars>>

(* The same call with the stack full: the interpreter raises RuntimeError
   (maximum recursion depth exceeded), which nothing catches. *)
RecursionError ==
    /\ pc = "findSource"
    /\ has_key(model_sources, arg)
    /\ depth >= RecursionLimit
    /\ pc' = "RuntimeError"
    /\ UNCHANGED <<doc, model_sources, idx, arg, depth, loadVars, readVars, extractVars, emitVars>>

(* The innermost frame falls off the end, every frame above returns that
   value, and the loop stores it: model_sources[mid] = findSource(mid). *)
ReturnAndStore ==
    /\ pc = "findSource"
    /\ ~has_key(model_sources, arg)
    /\ model_sources' =
           DictSet(model_sources, getId(getListOfModels(doc)[idx]), BaseResult(arg))
    /\ idx' = idx + 1
    /\ depth' = 0
    /\ pc' = "loop"
    /\ UNCHANGED <<doc, arg, loadVars, readVars, extractVars, emitVars>>

LoopEnd ==
    /\ pc = "loop"
    /\ idx > Len(getListOfModels(doc))
    /\ pc' = "resolved"
    /\ UNCHANGED <<doc, resolveVars, loadVars, readVars, extractVars, emitVars>>

ResolveInit ==
    /\ pc = "loadModel"
    /\ doc \in UNION {ResolveDocs(n) : n \in 1..Min(MaxModels, Len(AllIds))}
    /\ ResolveIdle /\ LoadIdle /\ ReadIdle /\ ExtractIdle /\ EmitIdle

ResolveNext ==
    \/ BuildTable
    \/ CallFindSource
    \/ Recurse
    \/ RecursionError
    \/ ReturnAndStore
    \/ LoopEnd

Spec == ResolveInit /\ [][ResolveNext]_vars

(* _loadModel is straight-line sequential code: a step that can be taken is taken. *)
FairSpec == Spec /\ WF_vars(ResolveNext)

(***************************************************************************)
(* C1.  For every document whose model -> source-model graph is acyclic,   *)
(* the resolution pass terminates (reaches the end of _loadModel), and in  *)
(* the table it leaves no entry is the id of a model of the document.      *)
(***************************************************************************)
C1_AcyclicResolutionTerminates ==
    /\ (pc = "loadModel" /\ Acyclic(doc)) ~> (pc = "resolved")
    /\ [](pc = "resolved" /\ Acyclic(doc) =>
            \A id \in ModelIdsOf(doc) : ~IsModelIdValue(doc, model_sources[id]))

(* An acyclic document with a derived model has been resolved to the end. *)
C1_Witness == pc = "resolved" /\ Acyclic(doc) /\ HasChain(doc)

(***************************************************************************)
(* C2.  After resolution of an acyclic document, the entry of every model  *)
(* is the first string on its source chain that is no model id; it is      *)
(* never an absent value.                                                  *)
(***************************************************************************)
C2_EntryIsOrigin ==
    pc = "resolved" /\ Acyclic(doc) =>
        \A id \in ModelIdsOf(doc) : model_sources[id] = Str(OriginOf(doc, id))

(***************************************************************************)
(* C3.  For a document whose source graph has a cycle, no chain walk makes *)
(* more than |Models| hops, and the pass does not return a table.          *)
(***************************************************************************)
C3_CycleGuard ==
    ~Acyclic(doc) =>
        /\ depth - 1 <= Len(getListOfModels(doc))
        /\ pc # "resolved"

(***************************************************************************)
(* C4.  After resolution of an acyclic document, the entry of every model  *)
(* carries the resolved source and the change lists of the models on its   *)
(* chain, concatenated root first and leaf last.                           *)
(***************************************************************************)
C4_EntryCarriesChainChanges ==
    pc = "resolved" /\ Acyclic(doc) =>
        \A id \in ModelIdsOf(doc) :
            model_sources[id] =
                ResolvedModel(OriginOf(doc, id),
                              ChainChanges(doc, id, Len(getListOfModels(doc))))

(***************************************************************************)
(* C9.  Whenever a chain walk looks a model id up in the table, it reads   *)
(* the source that model declares in the document.                         *)
(***************************************************************************)
C9_LookupReadsDeclaredSource ==
    pc = "findSource" /\ has_key(model_sources, arg) =>
        model_sources[arg.val] = Str(DeclaredSource(doc, arg.val))


(***************************************************************************)
(* The model-loading block of _loadModel (the statements kept after the    *)
(* resolution loop): it takes currentModel's source, follows one model     *)
(* reference, trims the string and prints the load statement.              *)
(***************************************************************************)
MaxBody == 2            \* characters after the prefix of a source string

BACKSLASH == <<"\\">>
SLASH == <<"/">>
DOT == <<".">>
DOTSLASH == <<".", "/">>
DOTDOTSLASH == <<".", ".", "/">>
URN == <<"u", "r", "n", ":", "m", "i", "r", "i", "a", "m">>
XML == <<".", "x", "m", "l">>

Bodies == UNION {[1..n -> {"a", "/", "\\"}] : n \in 0..MaxBody}

Prefixes ==
    { <<>>, DOT, DOTSLASH, DOTDOTSLASH, <<".", ".", "\\">>, SLASH, URN \o <<":">> }

LoadSources == {p \o b : p \in Prefixes, b \in Bodies}

LoadPaths == { <<"w", "/">>, <<"w", "\\">> }

(* One model m, or two models m and n; the source of each is a source
   string or the id of the other model. *)
LoadDocs ==
    { ModelsOnly(<<Model(AllIds[1], s, <<>>)>>) : s \in LoadSources }
    \cup
    { ModelsOnly(<<Model(AllIds[1], s, <<>>), Model(AllIds[2], t, <<>>)>>) :
        s \in LoadSources \cup {AllIds[2]}, t \in LoadSources \cup {AllIds[1]} }

(* sedmlDoc.getModel(string): the model of that id, or None. *)
getModel(d, id) == IF id \in ModelIdsOf(d) THEN ModelById(d, id) ELSE None

(* if isId(string): originalModel = sedmlDoc.getModel(string);
   if originalModel is not None: string = originalModel.getSource() *)
FollowReference(d, s, answer) ==
    IF answer /\ getModel(d, s) # None THEN getSource(getModel(d, s)) ELSE s

(* Inside the first branch: "../" loses three characters, "./" two. *)
Trim(s) ==
    IF StartsWith(s, DOTDOTSLASH) THEN DropFirst(s, 3)
    ELSE IF StartsWith(s, DOTSLASH) THEN DropFirst(s, 2)
    ELSE s

(* a or b, on strings: a when a is truthy, else b. *)
PyOrTruth(a, b) == Truthy(a) \/ b

(* elif "\\" or "/" or "urn:miriam" not in string
   parses as  "\\" or ("/" or ("urn:miriam" not in string)). *)
SecondCondition(s) == PyOrTruth(BACKSLASH, PyOrTruth(SLASH, ~Contains(s, URN)))

(* The branch of the if / elif / elif / else chain that is taken. *)
Branch(s) ==
    IF StartsWith(s, DOT) THEN "relative"
    ELSE IF SecondCondition(s) THEN "path"
    ELSE IF StartsWith(s, URN) THEN "urn"
    ELSE "absolute"

(* s.rsplit(':', 1)[1]: what follows the last colon. *)
AfterLastColon(s) ==
    LET last == CHOOSE k \in 1..Len(s) :
                    s[k] = ":" /\ \A j \in (k + 1)..Len(s) : s[j] # ":"
    IN  DropFirst(s, last)

(* The value of `string` when the load statement is printed. *)
FinalString(p, s) ==
    CASE Branch(s) = "relative" -> Trim(s)
      [] Branch(s) = "path"     -> s
      [] Branch(s) = "urn"      -> p \o AfterLastColon(s) \o XML
      [] Branch(s) = "absolute" -> ReplaceBackslash(s)

(* The file name inside rrName.load('...'). *)
Printed(p, s) ==
    IF Branch(s) \in {"relative", "path"}
    THEN ReplaceBackslash(p) \o FinalString(p, s)
    ELSE FinalString(p, s)

(* The string the branches test: the source with its backslashes replaced,
   then the one reference followed. *)
Classified(d, k, answer) ==
    FollowReference(d, ReplaceBackslash(getSource(getListOfModels(d)[k])), answer)

LoadBlock ==
    /\ pc = "loadBlock"
    /\ \E answer \in BOOLEAN :      \* isId is defined nowhere: either answer
        /\ isid' = answer
        /\ branch' = Branch(Classified(doc, cur, answer))
        /\ string' = FinalString(path, Classified(doc, cur, answer))
        /\ printed' = Printed(path, Classified(doc, cur, answer))
    /\ pc' = "loaded"
    /\ UNCHANGED <<doc, cur, path, resolveVars, readVars, extractVars, emitVars>>

LoadInit ==
    /\ pc = "loadBlock"
    /\ doc \in LoadDocs
    /\ cur \in 1..Len(getListOfModels(doc))
    /\ path \in LoadPaths
    /\ isid = FALSE
    /\ string = <<>>
    /\ branch = "none"
    /\ printed = <<>>
    /\ ResolveIdle /\ ReadIdle /\ ExtractIdle /\ EmitIdle

LoadNext == LoadBlock

LoadSpec == LoadInit /\ [][LoadNext]_vars

(* The source string the load statement is about: the model's own source,
   or the referenced model's source when the reference was followed. *)
SourceLoaded ==
    LET own == getSource(getListOfModels(doc)[cur])
    IN  FollowReference(doc, own, isid)

(* Backslashes to slashes, then one leading ./ or ../ removed. *)
Normalized(s) ==
    LET t == ReplaceBackslash(s)
    IN  IF StartsWith(t, DOTDOTSLASH) THEN DropFirst(t, 3)
        ELSE IF StartsWith(t, DOTSLASH) THEN DropFirst(t, 2)
        ELSE t

(***************************************************************************)
(* C5.  Classification of the source string is total and independent of    *)
(* the order of the tests: a string starting with urn:miriam takes the     *)
(* remote-uri branch, a string starting with ./ or ../ the relative        *)
(* branch, and no string takes the default load-as-path branch.            *)
(***************************************************************************)
C5_Classification ==
    pc = "loaded" =>
        LET s == Classified(doc, cur, isid)
        IN  /\ StartsWith(s, URN) => branch = "urn"
            /\ (StartsWith(s, DOTSLASH) \/ StartsWith(s, DOTDOTSLASH)) => branch = "relative"
            /\ branch # "path"

(***************************************************************************)
(* C6.  The file name loaded is the source string with every backslash     *)
(* replaced by a slash and exactly one leading ./ or ../ removed, after    *)
(* the directory prefix.                                                   *)
(***************************************************************************)
C6_PathNormalization ==
    pc = "loaded" => printed = ReplaceBackslash(path) \o Normalized(SourceLoaded)

(***************************************************************************)
(* __init__ and _readSEDMLDocument.  The input string is described by what *)
(* the XML parser and the file system answer about it.  Directories are    *)
(* sequences of path components.                                           *)
(***************************************************************************)
INPUT_TYPE_STR == Str("SEDML_STRING")
INPUT_TYPE_FILE_SEDML == Str("SEDML_FILE")
INPUT_TYPE_FILE_COMBINE == Str("COMBINE_FILE")

Extensions == {".sedml", ".xml", ".sedx", ".omex"}
SedmlExtensions == {".sedml", ".xml"}

Cwd == Str(<<"cwd">>)
InputDirs == { <<"d1">>, <<"d2">> }
InputDocs == { NoDoc, ModelsOnly(<<Model(AllIds[1], <<"a">>, <<>>)>>) }

(* xml: ElementTree.fromstring(inputStr) succeeds;  exists: os.path.exists;
   ext: os.path.splitext(...)[1];  zip: zipfile.is_zipfile;  dir: the
   directory of the real path;  content: the document the text holds (for
   an archive, the first SED-ML document of its manifest);  errors: that
   document's error log has entries of severity error. *)
Inputs ==
    { i \in [kind : {"input"}, xml : BOOLEAN, exists : BOOLEAN, ext : Extensions,
             zip : BOOLEAN, dir : InputDirs, content : InputDocs, errors : BOOLEAN] :
        /\ i.zip => i.exists /\ i.ext \notin SedmlExtensions
        /\ i.xml => ~i.exists }

(* self.inputStr = inputStr; self.inputType = None;
   if workingDir is None: workingDir = os.getcwd() *)
Construct ==
    /\ pc = "init"
    /\ inputType' = None
    /\ workingDir' = IF workingDir = None THEN Cwd ELSE workingDir
    /\ pc' = "readSEDMLDocument"
    /\ UNCHANGED <<doc, inputStr, models, resolveVars, loadVars, extractVars, emitVars>>

(* The try block: the input parses as XML. *)
ReadString ==
    /\ pc = "readSEDMLDocument"
    /\ inputStr.xml
    /\ doc' = inputStr.content
    /\ inputType' = INPUT_TYPE_STR
    /\ pc' = "checkErrorLog"
    /\ UNCHANGED <<inputStr, workingDir, models, resolveVars, loadVars, extractVars, emitVars>>

(* except ParseError: if not os.path.exists(self.inputStr): raise IOError *)
FileNotFound ==
    /\ pc = "readSEDMLDocument"
    /\ ~inputStr.xml
    /\ ~inputStr.exists
    /\ pc' = "IOError"
    /\ UNCHANGED <<doc, readVars, resolveVars, loadVars, extractVars, emitVars>>

(* if extension in [".sedml", ".xml"] *)
ReadFile ==
    /\ pc = "readSEDMLDocument"
    /\ ~inputStr.xml
    /\ inputStr.exists
    /\ inputStr.ext \in SedmlExtensions
    /\ doc' = inputStr.content
    /\ inputType' = INPUT_TYPE_FILE_SEDML
    /\ workingDir' = Str(inputStr.dir)
    /\ pc' = "checkErrorLog"
    /\ UNCHANGED <<inputStr, models, resolveVars, loadVars, extractVars, emitVars>>

(* elif zipfile.is_zipfile(self.input): the object has no attribute
   `input` (only inputStr is ever assigned), so evaluating the test raises
   AttributeError before is_zipfile is called; the archive branch below it
   is never entered. *)
ArchiveTest ==
    /\ pc = "readSEDMLDocument"
    /\ ~inputStr.xml
    /\ inputStr.exists
    /\ inputStr.ext \notin SedmlExtensions
    /\ pc' = "AttributeError"
    /\ UNCHANGED <<doc, readVars, resolveVars, loadVars, extractVars, emitVars>>

(* if getNumFailsWithSeverity(LIBSEDML_SEV_ERROR) > 0: raise IOError *)
ErrorLogRaises ==
    /\ pc = "checkErrorLog"
    /\ inputStr.errors
    /\ pc' = "IOError"
    /\ UNCHANGED <<doc, readVars, resolveVars, loadVars, extractVars, emitVars>>

(* self.models = None; self._parseSEDMLModels() (which is `pass`) *)
ParseModels ==
    /\ pc = "checkErrorLog"
    /\ ~inputStr.errors
    /\ models' = None
    /\ pc' = "constructed"
    /\ UNCHANGED <<doc, inputStr, workingDir, inputType, resolveVars, loadVars, extractVars, emitVars>>

ReadInit ==
    /\ pc = "init"
    /\ doc = NoDoc
    /\ inputStr \in Inputs
    /\ workingDir \in {None, Str(<<"wd">>)}
    /\ inputType = None
    /\ models = None
    /\ ResolveIdle /\ LoadIdle /\ ExtractIdle /\ EmitIdle

ReadNext ==
    \/ Construct
    \/ ReadString
    \/ FileNotFound
    \/ ReadFile
    \/ ArchiveTest
    \/ ErrorLogRaises
    \/ ParseModels

ReadSpec == ReadInit /\ [][ReadNext]_vars

IsArchiveInput(i) == ~i.xml /\ i.exists /\ i.zip /\ i.ext \notin SedmlExtensions

ConstructionEnded == pc \in {"constructed", "IOError", "AttributeError"}

(***************************************************************************)
(* C7.  Constructing the factory on the path of an existing archive ends   *)
(* with the factory constructed, inputType = COMBINE_FILE, and the         *)
(* archive's first SED-ML document loaded.                                 *)
(***************************************************************************)
C7_ArchiveConstructs ==
    IsArchiveInput(inputStr) /\ ConstructionEnded /\ ~inputStr.errors =>
        /\ pc = "constructed"
        /\ inputType = INPUT_TYPE_FILE_COMBINE
        /\ doc = inputStr.content

(***************************************************************************)
(* __extractArchive(archivePath, directory).  A path is the sequence of    *)
(* its components; an archive entry is its components and whether its     *)
(* name ends with "/".                                                     *)
(***************************************************************************)
MaxEntries == 3         \* entries in the archive
MaxRoot == 1            \* directory components of an entry

TargetDir == <<"t">>    \* the `directory` argument (an absolute path)

RootComponents == {"a", "b", ".."}
FileNames == {"f", "g"}

Roots == UNION {[1..n -> RootComponents] : n \in 0..MaxRoot}

(* "a/f", "f", "../g", ... and the directory entries "a/", "b/". *)
Entries ==
    { [parts |-> r \o <<f>>, slash |-> FALSE] : r \in Roots, f \in FileNames }
    \cup
    { [parts |-> r, slash |-> TRUE] : r \in (Roots \ {<<>>}) }

(* os.path.split(each) of a name that does not end with "/". *)
SplitRoot(e) == SubSeq(e.parts, 1, Len(e.parts) - 1)
SplitName(e) == e.parts[Len(e.parts)]

(* os.path.join(a, b), b relative. *)
Join(a, b) == a \o b

(* os.path.normpath of an absolute path: "." is dropped, ".." removes the
   component before it and is dropped at the root. *)
RECURSIVE NormFrom(_, _)
NormFrom(done, rest) ==
    IF rest = <<>> THEN done
    ELSE IF rest[1] = "." THEN NormFrom(done, Tail(rest))
    ELSE IF rest[1] = ".."
         THEN NormFrom(IF done = <<>> THEN done ELSE SubSeq(done, 1, Len(done) - 1),
                       Tail(rest))
    ELSE NormFrom(Append(done, rest[1]), Tail(rest))

NormPath(p) == NormFrom(<<>>, p)

(* os.makedirs: the directory and every missing ancestor. *)
MakeDirs(existing, p) == existing \cup {SubSeq(p, 1, k) : k \in 1..Len(p)}

(* zip = ZipFile(archivePath); if not isdir(directory): makedirs(directory) *)
OpenArchive ==
    /\ pc = "extractArchive"
    /\ dirs' = IF directory \in dirs THEN dirs ELSE MakeDirs(dirs, directory)
    /\ pos' = 1
    /\ pc' = "namelist"
    /\ UNCHANGED <<doc, names, directory, files, resolveVars, loadVars, readVars, emitVars>>

(* An entry whose name does not end with "/":
   root, name = os.path.split(each)
   directory = os.path.normpath(os.path.join(directory, root))
   (the joined path is assigned back to the local `directory`)
   makedirs if missing; write the file to os.path.join(directory, name) *)
ExtractEntry ==
    /\ pc = "namelist"
    /\ pos <= Len(names)
    /\ ~names[pos].slash
    /\ LET d == NormPath(Join(directory, SplitRoot(names[pos])))
       IN  /\ directory' = d
           /\ dirs' = IF d \in dirs THEN dirs ELSE MakeDirs(dirs, d)
           /\ files' = Append(files, [entry |-> pos, file |-> Join(d, <<SplitName(names[pos])>>)])
    /\ pos' = pos + 1
    /\ UNCHANGED <<pc, doc, names, resolveVars, loadVars, readVars, emitVars>>

(* An entry whose name ends with "/" is passed over. *)
SkipDirectoryEntry ==
    /\ pc = "namelist"
    /\ pos <= Len(names)
    /\ names[pos].slash
    /\ pos' = pos + 1
    /\ UNCHANGED <<pc, doc, names, directory, dirs, files, resolveVars, loadVars, readVars, emitVars>>

(* zip.close() *)
CloseArchive ==
    /\ pc = "namelist"
    /\ pos > Len(names)
    /\ pc' = "extracted"
    /\ UNCHANGED <<doc, extractVars, resolveVars, loadVars, readVars, emitVars>>

ExtractInit ==
    /\ pc = "extractArchive"
    /\ doc = NoDoc
    /\ names \in UNION {[1..n -> Entries] : n \in 0..MaxEntries}
    /\ pos = 0
    /\ directory = TargetDir
    /\ dirs \in {{}, {TargetDir}}
    /\ files = <<>>
    /\ ResolveIdle /\ LoadIdle /\ ReadIdle /\ EmitIdle

ExtractNext ==
    \/ OpenArchive
    \/ ExtractEntry
    \/ SkipDirectoryEntry
    \/ CloseArchive

ExtractSpec == ExtractInit /\ [][ExtractNext]_vars

(***************************************************************************)
(* C10.  Every file written by the extraction is the entry's own path      *)
(* inside the archive under the target directory given to the call,        *)
(* whatever entries were processed before it.                              *)
(***************************************************************************)
C10_EntriesUnderTarget ==
    \A k \in 1..Len(files) :
        files[k].file = NormPath(Join(TargetDir, names[files[k].entry].parts))

(***************************************************************************)
(* toPython: the rendering of the template.  The template file is not part *)
(* of the module; the statements it renders are taken from the emitter's   *)
(* contract: per model its load statement and then its changes, then the   *)
(* tasks, then the data generators, then the outputs, each list in         *)
(* declaration order; nothing is rendered when a reference dangles.        *)
(***************************************************************************)
MaxEntities == 2        \* tasks, data generators and outputs in a document

TaskIds == << <<"t", "1">>, <<"t", "2">>, <<"t", "3">> >>
GeneratorIds == << <<"d", "1">>, <<"d", "2">>, <<"d", "3">> >>
OutputIds == << <<"o", "1">>, <<"o", "2">>, <<"o", "3">> >>

Refs(ids) == {ids[k] : k \in 1..Min(MaxEntities, Len(ids))}

(* n entities with the ids of `ids`, each referring to one of `targets`. *)
Entities(ids, targets) ==
    UNION { { [k \in 1..n |-> [id |-> ids[k], ref |-> r[k]]] : r \in [1..n -> targets] } :
              n \in 0..Min(MaxEntities, Len(ids)) }

(* One model m, or m and a second model n that is raw or derived from m. *)
EmitModelLists ==
    { <<Model(AllIds[1], <<"a">>, c1)>> : c1 \in {<<>>, <<ChangeNames[1]>>} }
    \cup
    { <<Model(AllIds[1], <<"a">>, c1), Model(AllIds[2], s, <<ChangeNames[2]>>)>> :
        c1 \in {<<>>, <<ChangeNames[1]>>}, s \in {<<"b">>, AllIds[1]} }

EmitDocs ==
    { [listOfModels |-> ms, listOfTasks |-> ts,
       listOfDataGenerators |-> ds, listOfOutputs |-> os] :
        ms \in EmitModelLists,
        ts \in Entities(TaskIds, {AllIds[1], AllIds[2]}),
        ds \in Entities(GeneratorIds, Refs(TaskIds)),
        os \in Entities(OutputIds, Refs(GeneratorIds)) }

IdsIn(list) == {list[k].id : k \in 1..Len(list)}

(* Every task names a model, every data generator a task, every output a
   data generator of the document. *)
ReferencesResolve(d) ==
    /\ \A k \in 1..Len(d.listOfTasks) : d.listOfTasks[k].ref \in ModelIdsOf(d)
    /\ \A k \in 1..Len(d.listOfDataGenerators) :
           d.listOfDataGenerators[k].ref \in IdsIn(d.listOfTasks)
    /\ \A k \in 1..Len(d.listOfOutputs) :
           d.listOfOutputs[k].ref \in IdsIn(d.listOfDataGenerators)

Statement(kind, id, what) == [kind |-> kind, id |-> id, what |-> what]

RECURSIVE Flatten(_)
Flatten(ss) == IF ss = <<>> THEN <<>> ELSE Head(ss) \o Flatten(Tail(ss))

(* A model's statements: load from the resolved source, then the changes
   of its chain, root first. *)
ModelStatements(d, m) ==
    LET cs == ChainChanges(d, m.id, Len(getListOfModels(d)))
    IN  <<Statement("model", m.id, <<"load">> \o OriginOf(d, m.id))>>
        \o [k \in 1..Len(cs) |-> Statement("model", m.id, <<"change", cs[k]>>)]

EmitModels(d) ==
    Flatten([k \in 1..Len(getListOfModels(d)) |-> ModelStatements(d, getListOfModels(d)[k])])

EmitEntities(kind, list) ==
    [k \in 1..Len(list) |-> Statement(kind, list[k].id, <<"uses">> \o list[k].ref)]

(* The task statements rendered ahead of the model statements. *)
TasksBeforeModels(d) ==
    EmitEntities("task", d.listOfTasks)
    \o EmitModels(d)
    \o EmitEntities("dataGenerator", d.listOfDataGenerators)
    \o EmitEntities("output", d.listOfOutputs)

Emit(d) ==
    EmitModels(d)
    \o EmitEntities("task", d.listOfTasks)
    \o EmitEntities("dataGenerator", d.listOfDataGenerators)
    \o EmitEntities("output", d.listOfOutputs)

(* template.render(c) *)
Render ==
    /\ pc = "toPython"
    /\ ReferencesResolve(doc)
    /\ script' = Emit(doc)
    /\ pc' = "rendered"
    /\ UNCHANGED <<doc, resolveVars, loadVars, readVars, extractVars>>

RenderFails ==
    /\ pc = "toPython"
    /\ ~ReferencesResolve(doc)
    /\ pc' = "ReferenceError"
    /\ UNCHANGED <<doc, script, resolveVars, loadVars, readVars, extractVars>>

EmitInit ==
    /\ pc = "toPython"
    /\ doc \in EmitDocs
    /\ script = <<>>
    /\ ResolveIdle /\ LoadIdle /\ ReadIdle /\ ExtractIdle

EmitNext ==
    \/ Render
    \/ RenderFails

EmitSpec == EmitInit /\ [][EmitNext]_vars

(* The positions in the script of the statements of entity `id` of `kind`. *)
Positions(kind, id) ==
    {k \in 1..Len(script) : script[k].kind = kind /\ script[k].id = id}

Before(P, Q) == \A i \in P, j \in Q : i < j

Elems(list) == {list[k] : k \in 1..Len(list)}

(* <<M, T, D, O>>: model M, task T using M, data generator D using T,
   output O using D. *)
DependencyChains(d) ==
    { <<c[1].ref, c[1].id, c[2].id, c[3].id>> :
        c \in { x \in Elems(d.listOfTasks) \X Elems(d.listOfDataGenerators)
                       \X Elems(d.listOfOutputs) :
                  /\ x[1].ref \in ModelIdsOf(d)
                  /\ x[2].ref = x[1].id
                  /\ x[3].ref = x[2].id } }

(* The statements of model id are a load statement and then changes only. *)
LoadThenChanges(id) ==
    LET P == Positions("model", id)
    IN  /\ P # {}
        /\ LET first == CHOOSE k \in P : \A j \in P : k <= j
           IN  /\ script[first].what[1] = "load"
               /\ \A j \in P \ {first} : script[j].what[1] = "change"

(***************************************************************************)
(* C8.  In the rendered script, for every model M, task T using M, data    *)
(* generator D using T and output O using D: every statement of M (its     *)
(* load, then its changes) is before every statement of T, T's before D's, *)
(* and D's before O's.                                                     *)
(***************************************************************************)
C8_EmissionOrder ==
    pc = "rendered" =>
        \A c \in DependencyChains(doc) :
            /\ LoadThenChanges(c[1])
            /\ Positions("task", c[2]) # {}
            /\ Positions("dataGenerator", c[3]) # {}
            /\ Positions("output", c[4]) # {}
            /\ Before(Positions("model", c[1]), Positions("task", c[2]))
            /\ Before(Positions("task", c[2]), Positions("dataGenerator", c[3]))
            /\ Before(Positions("dataGenerator", c[3]), Positions("output", c[4]))

(* A script has been rendered for a document that holds such a chain, whose
   model has a change to apply. *)
C8_Witness ==
    /\ pc = "rendered"
    /\ \E c \in DependencyChains(doc) : Cardinality(Positions("model", c[1])) >= 2

====
